---- MODULE Spec2Model ----
(***************************************************************************)
(* A model of subsys/net/l2/ethernet/dsa/dsa.c: the LAG membership table   *)
(* (dsa_switch_lag_join / _leave / _change, as atomic calls and access by  *)
(* access), the ingress redirector (dsa_net_recv), the egress tagger       *)
(* (dsa_tx, dsa_register_master_tx) and the slave port lookup              *)
(* (dsa_get_slave_port).                                                   *)
(***************************************************************************)
EXTENDS Integers, Sequences, FiniteSets, TLC

(* ------------------------------ bounds --------------------------------- *)
\* number of entries of context->lags[] (sized in dsa.h)
NumPorts == 2
\* number of entries of context->lag_ids[] (sized in dsa.h)
NumLagIds == 2
\* lag_id arguments are drawn from 0..MaxLagId
MaxLagId == 2
\* number of slave interfaces of the switch (context->num_slave_ports)
NumSlavePorts == 2
\* packet handles are drawn from 1..MaxPkt
MaxPkt == 2
\* calls each thread makes in the interleaved runs
MaxRaceCalls == 2

(* ------------------------- program constants --------------------------- *)
ENOMEM == 12
ENOTSUP == 134
ENOENT == 2
ESRCH == 3
ENODEV == 19

Ports == 0 .. (NumPorts - 1)
Slots == 0 .. (NumLagIds - 1)
LagIdArgs == 0 .. MaxLagId
\* port arguments of the calls, one below and one above the lags[] array
PortArgs == (0 - 1) .. NumPorts
\* status codes the driver primitives may return
DrvRets == {0, 0 - 1}

\* struct dsa_lag
DsaLag == [id : LagIdArgs, is_valid : BOOLEAN]
NoLag == [id |-> 0, is_valid |-> FALSE]

\* interfaces: the slave ports 0..NumSlavePorts-1, then the master, an
\* Ethernet interface without DSA capabilities and a non-Ethernet interface
IfNull == 0 - 1
IfSlaves == 0 .. (NumSlavePorts - 1)
IfMaster == NumSlavePorts
IfPlain == NumSlavePorts + 1
IfNonEth == NumSlavePorts + 2
Ifaces == IfSlaves \cup {IfMaster, IfPlain, IfNonEth}

PktNull == 0
Pkts == 1 .. MaxPkt

\* receive callbacks a caller may register, by what they answer
RecvCbs == {"cb_accept", "cb_reject"}

\* transmit functions of the Ethernet driver that a caller may register
TxFns == {"eth_tx_a", "eth_tx_b"}
\* status codes a transmit function may return
TxRets == {0, 0 - 1}
\* slave_num arguments, from below 0 to beyond num_slave_ports
SlaveNumArgs == (0 - 1) .. (NumSlavePorts + 1)

VARIABLES
    lag_ids,    \* context->lag_ids[]
    lags,       \* context->lags[]
    call,       \* the LAG call that completed last: arguments, status, driver calls
    dsa_recv_cb,\* ethernet_context.dsa_recv_cb of every interface
    cfg,        \* the master's dsa_ctx, its dapi and dapi->dsa_get_iface: bound or not
    rx,         \* the ingress call that completed last: arguments, result, calls made
    dsa_send,   \* ethernet_context.dsa_send of every interface
    iface_master, \* context->iface_master is set
    tx,         \* the egress or registration call that completed last
    gs,         \* the dsa_get_slave_port call that completed last
    thr         \* the threads inside a LAG call: position and locals of each

lagvars == <<lag_ids, lags>>

(* ------------------------- dsa_switch_lag_join ------------------------- *)
\* JoinScan, but a full table gives up its first slot to the new id
RECURSIVE JoinScanEvict(_, _, _)
JoinScanEvict(ids, lag_id, i) ==
    IF i >= NumLagIds
    THEN [ids |-> [ids EXCEPT ![0] = lag_id],
          new_lag |-> [id |-> lag_id, is_valid |-> TRUE]]
    ELSE IF ids[i] = lag_id /\ ids[i] > 0
         THEN [ids |-> ids, new_lag |-> [id |-> lag_id, is_valid |-> TRUE]]
         ELSE IF ids[i] = 0
              THEN [ids |-> [ids EXCEPT ![i] = lag_id],
                    new_lag |-> [id |-> lag_id, is_valid |-> TRUE]]
              ELSE JoinScanEvict(ids, lag_id, i + 1)

\* the scan of lag_ids from slot i: the slots as left by the loop, and new_lag
RECURSIVE JoinScan(_, _, _)
JoinScan(ids, lag_id, i) ==
    IF i >= NumLagIds
    THEN [ids |-> ids, new_lag |-> NoLag]
    ELSE IF ids[i] = lag_id /\ ids[i] > 0
         THEN [ids |-> ids, new_lag |-> [id |-> lag_id, is_valid |-> TRUE]]
         ELSE IF ids[i] = 0
              THEN [ids |-> [ids EXCEPT ![i] = lag_id],
                    new_lag |-> [id |-> lag_id, is_valid |-> TRUE]]
              ELSE JoinScan(ids, lag_id, i + 1)

(* --------------------- dsa_switch_lag_leave / change ------------------- *)
\* LagCheck without the comparison of the port's id with the lag_id argument
LagCheckNoIdTest(port_lag, lag_id) ==
    IF ~(port_lag.is_valid \/ port_lag.id = 0)
    THEN 0 - ENOTSUP
    ELSE 0

\* the validation of the port's entry against the lag_id argument
LagCheck(port_lag, lag_id) ==
    IF ~(port_lag.is_valid \/ port_lag.id = 0)
    THEN 0 - ENOTSUP
    ELSE IF port_lag.id # lag_id
         THEN 0 - ENOTSUP
         ELSE 0

\* is_unused_lag after the scan of all of lags[]
IsUnusedLag(ls, id) ==
    ~ \E i \in Ports : ls[i].is_valid /\ ls[i].id = id

\* the loop that zeroes the first slot of lag_ids holding id, from slot i
RECURSIVE RemoveLagId(_, _, _)
RemoveLagId(ids, id, i) ==
    IF i >= NumLagIds
    THEN ids
    ELSE IF ids[i] = id
         THEN [ids EXCEPT ![i] = 0]
         ELSE RemoveLagId(ids, id, i + 1)

\* the reclaim of id from lag_ids when no port of ls references it
Reclaim(ids, ls, id) ==
    IF IsUnusedLag(ls, id) THEN RemoveLagId(ids, id, 0) ELSE ids

(* ------------------------ out-of-bounds accesses ----------------------- *)
\* what a read of lags[port] beyond the array may yield
OobRead == DsaLag

\* what a store of the word v through &lags[port] beyond the array may leave
\* in lag_ids: the store lands outside the table, or on one of its slots
OobStore(ids, v) ==
    {ids} \cup {[ids EXCEPT ![j] = v] : j \in Slots}

\* the entry of the port as the code reads it
PortLagRead(port) ==
    IF port \in Ports THEN {lags[port]} ELSE OobRead

(* ------------------------------ the calls ------------------------------ *)
Done(op, port, lag_id, ret, drv) ==
    call' = [op |-> op, port |-> port, lag_id |-> lag_id, ret |-> ret, drv |-> drv]

dsa_switch_lag_join(port, lag_id) ==
    LET r == JoinScan(lag_ids, lag_id, 0) IN
    IF ~r.new_lag.is_valid
    THEN /\ lag_ids' = r.ids
         /\ UNCHANGED lags
         /\ Done("lag_join", port, lag_id, 0 - ENOMEM, <<>>)
    ELSE \E st \in DrvRets :
         /\ IF port \in Ports
            THEN /\ lag_ids' = r.ids
                 /\ lags' = [lags EXCEPT ![port] = r.new_lag]
            ELSE /\ lag_ids' \in OobStore(r.ids, r.new_lag.id)
                 /\ UNCHANGED lags
         /\ Done("lag_join", port, lag_id, st,
                 <<[fn |-> "port_lag_join", port |-> port, lag |-> r.new_lag, res |-> st,
                   seen |-> [lag_ids |-> lag_ids', lags |-> lags']]>>)

\* dsa_switch_lag_leave, but a driver error restores the tables
dsa_switch_lag_leave_rollback(port, lag_id) ==
    \E port_lag \in PortLagRead(port) :
    LET old_lag == [id |-> lag_id, is_valid |-> FALSE]
        chk == LagCheck(port_lag, lag_id)
    IN
    IF chk # 0
    THEN /\ UNCHANGED lagvars
         /\ Done("lag_leave", port, lag_id, chk, <<>>)
    ELSE \E st \in DrvRets :
         /\ IF port \in Ports /\ st = 0
            THEN LET ls == [lags EXCEPT ![port] = NoLag] IN
                 /\ lags' = ls
                 /\ lag_ids' = Reclaim(lag_ids, ls, old_lag.id)
            ELSE UNCHANGED lagvars
         /\ Done("lag_leave", port, lag_id, st,
                 <<[fn |-> "port_lag_leave", port |-> port, lag |-> old_lag, res |-> st,
                   seen |-> [lag_ids |-> lag_ids', lags |-> lags']]>>)

dsa_switch_lag_leave(port, lag_id) ==
    \E port_lag \in PortLagRead(port) :
    LET old_lag == [id |-> lag_id, is_valid |-> FALSE]
        chk == LagCheck(port_lag, lag_id)
    IN
    IF chk # 0
    THEN /\ UNCHANGED lagvars
         /\ Done("lag_leave", port, lag_id, chk, <<>>)
    ELSE \E st \in DrvRets :
         /\ IF port \in Ports
            THEN LET ls == [lags EXCEPT ![port] = NoLag] IN
                 /\ lags' = ls
                 /\ lag_ids' = Reclaim(lag_ids, ls, old_lag.id)
            ELSE /\ UNCHANGED lags
                 /\ \E ids \in OobStore(lag_ids, 0) :
                        lag_ids' = Reclaim(ids, lags, old_lag.id)
         /\ Done("lag_leave", port, lag_id, st,
                 <<[fn |-> "port_lag_leave", port |-> port, lag |-> old_lag, res |-> st,
                   seen |-> [lag_ids |-> lag_ids', lags |-> lags']]>>)

dsa_switch_lag_change(port, lag_id) ==
    \E port_lag \in PortLagRead(port) :
    LET chk == LagCheck(port_lag, lag_id)
        old_lag_id == port_lag.id
    IN
    IF chk # 0
    THEN /\ UNCHANGED lagvars
         /\ Done("lag_change", port, lag_id, chk, <<>>)
    ELSE \E st \in DrvRets :
         /\ IF port \in Ports
            THEN LET ls == [lags EXCEPT ![port].id = lag_id] IN
                 /\ lags' = ls
                 /\ lag_ids' = Reclaim(lag_ids, ls, old_lag_id)
            ELSE /\ UNCHANGED lags
                 /\ \E ids \in OobStore(lag_ids, lag_id) :
                        lag_ids' = Reclaim(ids, lags, old_lag_id)
         /\ Done("lag_change", port, lag_id, st,
                 <<[fn |-> "port_lag_change", port |-> port, lag |-> NoLag, res |-> st,
                   seen |-> [lag_ids |-> lag_ids', lags |-> lags']]>>)

(* ------------------------------- ingress ------------------------------- *)
\* net_if_l2(iface) == &NET_L2_GET_NAME(ETHERNET)
IsEthernet(iface) == iface # IfNonEth

\* net_eth_get_hw_capabilities(iface) & ETHERNET_DSA_MASTER_PORT
dsa_is_port_master(iface) == IsEthernet(iface) /\ iface = IfMaster

\* net_eth_get_hw_capabilities(iface) & ETHERNET_DSA_SLAVE_PORT
IsSlavePort(iface) == iface \in IfSlaves

dsa_check_iface(iface) ==
    IF ~IsEthernet(iface)
    THEN 0 - ENOENT
    ELSE IF ~(dsa_is_port_master(iface) \/ IsSlavePort(iface))
         THEN 0 - ESRCH
         ELSE 0

\* the answer of a registered callback
CbResult(cb) == cb = "cb_accept"

RxDone(op, iface, pkt, ret, log) ==
    rx' = [op |-> op, iface |-> iface, pkt |-> pkt, ret |-> ret, log |-> log]

dsa_register_recv_callback(iface, cb) ==
    LET ret == dsa_check_iface(iface) IN
    /\ IF ret < 0
       THEN UNCHANGED dsa_recv_cb
       ELSE IF cb # "NULL"
            THEN dsa_recv_cb' = [dsa_recv_cb EXCEPT ![iface] = cb]
            ELSE UNCHANGED dsa_recv_cb
    /\ RxDone("register_recv_callback", iface, PktNull, ret, <<>>)
    /\ UNCHANGED cfg

\* c->dsa_ctx of the interface the frame arrived on
DsaCtxOf(iface) == iface = IfMaster /\ cfg.dsa_ctx

\* dsa_net_recv, but the answer of the callback is not looked at
dsa_net_recv_any_answer(iface, pkt) ==
    /\ UNCHANGED <<dsa_recv_cb, cfg>>
    /\ IF pkt = PktNull \/ iface = IfNull
       THEN RxDone("net_recv", iface, pkt, IfNull, <<>>)
       ELSE IF ~DsaCtxOf(iface) \/ ~cfg.dapi
       THEN RxDone("net_recv", iface, pkt, iface, <<>>)
       ELSE IF ~cfg.dsa_get_iface
       THEN RxDone("net_recv", iface, pkt, iface, <<>>)
       ELSE \E iface_sw \in Ifaces :
            LET get == [fn |-> "dsa_get_iface", iface |-> iface, pkt |-> pkt,
                        res |-> iface_sw]
                cb == dsa_recv_cb[iface_sw]
                filt == [fn |-> "dsa_recv_cb", iface |-> iface_sw, pkt |-> pkt,
                         res |-> IF CbResult(cb) THEN 1 ELSE 0]
            IN
            IF dsa_check_iface(iface_sw) < 0
            THEN RxDone("net_recv", iface, pkt, iface_sw, <<get>>)
            ELSE IF cb # "NULL"
                 THEN RxDone("net_recv", iface, pkt, iface_sw, <<get, filt>>)
                 ELSE RxDone("net_recv", iface, pkt, iface, <<get>>)

dsa_net_recv(iface, pkt) ==
    /\ UNCHANGED <<dsa_recv_cb, cfg>>
    /\ IF pkt = PktNull \/ iface = IfNull
       THEN RxDone("net_recv", iface, pkt, IfNull, <<>>)
       ELSE IF ~DsaCtxOf(iface) \/ ~cfg.dapi
       THEN RxDone("net_recv", iface, pkt, iface, <<>>)
       ELSE IF ~cfg.dsa_get_iface
       THEN RxDone("net_recv", iface, pkt, iface, <<>>)
       ELSE \E iface_sw \in Ifaces :
            LET get == [fn |-> "dsa_get_iface", iface |-> iface, pkt |-> pkt,
                        res |-> iface_sw]
                cb == dsa_recv_cb[iface_sw]
                filt == [fn |-> "dsa_recv_cb", iface |-> iface_sw, pkt |-> pkt,
                         res |-> IF CbResult(cb) THEN 1 ELSE 0]
            IN
            IF dsa_check_iface(iface_sw) < 0
            THEN RxDone("net_recv", iface, pkt, iface_sw, <<get>>)
            ELSE IF cb # "NULL"
                 THEN IF CbResult(cb)
                      THEN RxDone("net_recv", iface, pkt, iface_sw, <<get, filt>>)
                      ELSE RxDone("net_recv", iface, pkt, iface, <<get, filt>>)
                 ELSE RxDone("net_recv", iface, pkt, iface, <<get>>)

(* -------------------------------- egress ------------------------------- *)
TxDone(op, dev, pkt, ret, log) ==
    tx' = [op |-> op, dev |-> dev, pkt |-> pkt, ret |-> ret, log |-> log]

dsa_register_master_tx(iface, fn) ==
    /\ dsa_send' = [dsa_send EXCEPT ![iface] = fn]
    /\ TxDone("register_master_tx", iface, PktNull, 0, <<>>)
    /\ UNCHANGED <<iface_master, gs>>

\* TxVia, but the status of the transmit function is dropped
TxViaSwallow(dev, iface, pkt, master) ==
    \E st \in TxRets :
        LET tagged == [src |-> iface, pkt |-> pkt]
            xmit == [fn |-> "dsa_xmit_pkt", iface |-> iface, pkt |-> pkt,
                     res |-> tagged]
            send == [fn |-> dsa_send[master], dev |-> master, pkt |-> tagged,
                     res |-> st]
        IN
        /\ dsa_send[master] # "NULL"
        /\ TxDone("tx", dev, pkt, 0, <<xmit, send>>)

\* ctx->dsa_send(device of master, context->dapi->dsa_xmit_pkt(iface, pkt)):
\* the driver tags the packet, then the function saved in the master's
\* ethernet_context sends it; the master's context holds that function
\* whenever dsa_tx runs
TxVia(dev, iface, pkt, master) ==
    \E st \in TxRets :
        LET tagged == [src |-> iface, pkt |-> pkt]
            xmit == [fn |-> "dsa_xmit_pkt", iface |-> iface, pkt |-> pkt,
                     res |-> tagged]
            send == [fn |-> dsa_send[master], dev |-> master, pkt |-> tagged,
                     res |-> st]
        IN
        /\ dsa_send[master] # "NULL"
        /\ TxDone("tx", dev, pkt, st, <<xmit, send>>)

\* dsa_tx without the test of context->iface_master
dsa_tx_unchecked(dev, pkt) ==
    /\ cfg.dsa_ctx /\ cfg.dapi
    /\ UNCHANGED <<dsa_send, iface_master, gs>>
    /\ TxVia(dev, dev, pkt, IfMaster)

\* dev stands for the device of interface dev (net_if_lookup_by_dev); the
\* switch context and its driver are bound on every device dsa_tx serves
dsa_tx(dev, pkt) ==
    /\ cfg.dsa_ctx /\ cfg.dapi
    /\ UNCHANGED <<dsa_send, iface_master, gs>>
    /\ IF dsa_is_port_master(dev)
       THEN TxVia(dev, dev, pkt, dev)
       ELSE IF ~iface_master
            THEN TxDone("tx", dev, pkt, 0 - ENODEV, <<>>)
            ELSE TxVia(dev, dev, pkt, IfMaster)

(* ---------------------------- port registry ---------------------------- *)
\* net_if_l2_data(iface) != NULL
EthCtxOf(iface) == iface # IfNonEth

\* what the read of num_slave_ports through a NULL dsa_ctx may end in: a
\* fault, or a value that lets the call return NULL or some interface
NullCtxOutcomes ==
    {[ret |-> IfNull, fault |-> TRUE]}
        \cup {[ret |-> r, fault |-> FALSE] : r \in IfSlaves \cup {IfNull}}

dsa_get_slave_port(iface, slave_num) ==
    /\ UNCHANGED <<dsa_send, iface_master, tx>>
    /\ \E out \in (IF ~EthCtxOf(iface)
                   THEN {[ret |-> IfNull, fault |-> FALSE]}
                   ELSE IF ~DsaCtxOf(iface)
                   THEN NullCtxOutcomes
                   ELSE IF slave_num < 0 \/ slave_num >= NumSlavePorts
                   THEN {[ret |-> IfNull, fault |-> FALSE]}
                   ELSE {[ret |-> slave_num, fault |-> FALSE]}) :
           gs' = [op |-> "get_slave_port", iface |-> iface, slave_num |-> slave_num,
                  ret |-> out.ret, fault |-> out.fault]

(* ------------------- the LAG calls, access by access ------------------- *)
\* two threads, each calling on a port of its own
Threads == {1, 2}
ThreadPort(t) == t - 1
\* the threads pass ids of real groups
RaceLagIds == LagIdArgs \ {0}

\* a thread outside the calls, after n of them
Idle(n) == [pc |-> "idle", lag_id |-> 0, i |-> 0, unused |-> FALSE, n |-> n]

\* thread t moves to position pc with locals lag_id, i, is_unused_lag
Goto(t, pc, lag_id, i, unused) ==
    thr' = [thr EXCEPT ![t].pc = pc, ![t].lag_id = lag_id, ![t].i = i,
                       ![t].unused = unused]

\* thread t returns from its call
Return(t) ==
    thr' = [thr EXCEPT ![t] = Idle(thr[t].n + 1)]

\* a thread enters dsa_switch_lag_join, _leave or _change
RaceCall(t, op, lag_id) ==
    /\ thr[t].pc = "idle"
    /\ thr[t].n < MaxRaceCalls
    /\ Goto(t, op, lag_id, 0, FALSE)
    /\ UNCHANGED lagvars

\* join: one turn of the loop over lag_ids, up to its read of slot i
RaceJoinScan(t) ==
    LET i == thr[t].i
        lag_id == thr[t].lag_id
    IN
    /\ thr[t].pc = "join"
    /\ UNCHANGED lagvars
    /\ IF i >= NumLagIds
       THEN Return(t)
       ELSE IF lag_ids[i] = lag_id /\ lag_ids[i] > 0
       THEN Goto(t, "join_store", lag_id, i, FALSE)
       ELSE IF lag_ids[i] = 0
       THEN Goto(t, "join_claim", lag_id, i, FALSE)
       ELSE Goto(t, "join", lag_id, i + 1, FALSE)

\* join: context->lag_ids[i] = lag_id
RaceJoinClaim(t) ==
    /\ thr[t].pc = "join_claim"
    /\ lag_ids' = [lag_ids EXCEPT ![thr[t].i] = thr[t].lag_id]
    /\ UNCHANGED lags
    /\ Goto(t, "join_store", thr[t].lag_id, thr[t].i, FALSE)

\* join: context->lags[port] = new_lag, then the driver call and the return
RaceJoinStore(t) ==
    /\ thr[t].pc = "join_store"
    /\ lags' = [lags EXCEPT ![ThreadPort(t)] =
                    [id |-> thr[t].lag_id, is_valid |-> TRUE]]
    /\ UNCHANGED lag_ids
    /\ Return(t)

\* leave and change: the read of the port's entry and its validation
RaceCheck(t) ==
    /\ thr[t].pc \in {"leave", "change"}
    /\ UNCHANGED lagvars
    /\ IF LagCheck(lags[ThreadPort(t)], thr[t].lag_id) # 0
       THEN Return(t)
       ELSE Goto(t, IF thr[t].pc = "leave" THEN "leave_clear" ELSE "change_write",
                 thr[t].lag_id, 0, TRUE)

\* leave: port_lag->is_valid = false; port_lag->id = 0
RaceLeaveClear(t) ==
    /\ thr[t].pc = "leave_clear"
    /\ lags' = [lags EXCEPT ![ThreadPort(t)] = NoLag]
    /\ UNCHANGED lag_ids
    /\ Goto(t, "ports", thr[t].lag_id, 0, TRUE)

\* change: port_lag->id = lag_id
RaceChangeWrite(t) ==
    /\ thr[t].pc = "change_write"
    /\ lags' = [lags EXCEPT ![ThreadPort(t)].id = thr[t].lag_id]
    /\ UNCHANGED lag_ids
    /\ Goto(t, "ports", thr[t].lag_id, 0, TRUE)

\* leave and change: one turn of the loop over lags, reading entry i
RacePortsScan(t) ==
    LET i == thr[t].i
        lag_id == thr[t].lag_id
    IN
    /\ thr[t].pc = "ports"
    /\ UNCHANGED lagvars
    /\ IF i >= NumPorts
       THEN IF thr[t].unused
            THEN Goto(t, "remove", lag_id, 0, TRUE)
            ELSE Return(t)
       ELSE IF lags[i].is_valid /\ lags[i].id = lag_id
            THEN Goto(t, "ports", lag_id, i + 1, FALSE)
            ELSE Goto(t, "ports", lag_id, i + 1, thr[t].unused)

\* leave and change: one turn of the loop over lag_ids, reading slot i
RaceRemoveScan(t) ==
    LET i == thr[t].i
        lag_id == thr[t].lag_id
    IN
    /\ thr[t].pc = "remove"
    /\ UNCHANGED lagvars
    /\ IF i >= NumLagIds
       THEN Return(t)
       ELSE IF lag_ids[i] = lag_id
            THEN Goto(t, "remove_zero", lag_id, i, TRUE)
            ELSE Goto(t, "remove", lag_id, i + 1, TRUE)

\* leave and change: context->lag_ids[i] = 0, then the driver call and the return
RaceRemoveZero(t) ==
    /\ thr[t].pc = "remove_zero"
    /\ lag_ids' = [lag_ids EXCEPT ![thr[t].i] = 0]
    /\ UNCHANGED lags
    /\ Return(t)

(* --------------------------- specifications ---------------------------- *)
vars == <<lag_ids, lags, call, dsa_recv_cb, cfg, rx, dsa_send, iface_master, tx, gs, thr>>
regvars == <<dsa_send, iface_master, tx, gs>>
rxvars == <<dsa_recv_cb, cfg, rx>>
netvars == <<dsa_recv_cb, cfg, rx, dsa_send, iface_master, tx, gs, thr>>
lagstate == <<lag_ids, lags, call, thr>>

InitLag ==
    /\ lag_ids = [i \in Slots |-> 0]
    /\ lags = [p \in Ports |-> NoLag]
    /\ call = [op |-> "none", port |-> 0, lag_id |-> 0, ret |-> 0, drv |-> <<>>]
    /\ thr = [t \in Threads |-> Idle(0)]

InitNet ==
    /\ dsa_recv_cb = [i \in Ifaces |-> "NULL"]
    /\ rx = [op |-> "none", iface |-> IfNull, pkt |-> PktNull, ret |-> IfNull,
             log |-> <<>>]

\* nothing registered, no call made
InitReg ==
    /\ dsa_send = [i \in Ifaces |-> "NULL"]
    /\ tx = [op |-> "none", dev |-> IfNull, pkt |-> PktNull, ret |-> 0, log |-> <<>>]
    /\ gs = [op |-> "none", iface |-> IfNull, slave_num |-> 0, ret |-> IfNull,
             fault |-> FALSE]

\* a switch brought up with its driver bound
Init ==
    /\ InitLag
    /\ InitNet
    /\ InitReg
    /\ iface_master = TRUE
    /\ cfg = [dsa_ctx |-> TRUE, dapi |-> TRUE, dsa_get_iface |-> TRUE]

\* a switch with its driver bound, with or without a master reference
InitAnyMaster ==
    /\ InitLag
    /\ InitNet
    /\ InitReg
    /\ iface_master \in BOOLEAN
    /\ cfg = [dsa_ctx |-> TRUE, dapi |-> TRUE, dsa_get_iface |-> TRUE]

\* any bring-up: the context, the driver or its resolve operation may be missing
InitAnyCfg ==
    /\ InitLag
    /\ InitNet
    /\ InitReg
    /\ iface_master = TRUE
    /\ cfg \in [dsa_ctx : BOOLEAN, dapi : BOOLEAN, dsa_get_iface : BOOLEAN]

\* the calls with ports inside lags[]
Next ==
    \/ \E port \in Ports, lag_id \in LagIdArgs :
           dsa_switch_lag_join(port, lag_id) /\ UNCHANGED netvars
    \/ \E port \in Ports, lag_id \in LagIdArgs :
           dsa_switch_lag_leave(port, lag_id) /\ UNCHANGED netvars
    \/ \E port \in Ports, lag_id \in LagIdArgs :
           dsa_switch_lag_change(port, lag_id) /\ UNCHANGED netvars

Spec == Init /\ [][Next]_vars

\* the calls with any port argument
NextAnyPort ==
    \/ \E port \in PortArgs, lag_id \in LagIdArgs :
           dsa_switch_lag_join(port, lag_id) /\ UNCHANGED netvars
    \/ \E port \in PortArgs, lag_id \in LagIdArgs :
           dsa_switch_lag_leave(port, lag_id) /\ UNCHANGED netvars
    \/ \E port \in PortArgs, lag_id \in LagIdArgs :
           dsa_switch_lag_change(port, lag_id) /\ UNCHANGED netvars

SpecAnyPort == Init /\ [][NextAnyPort]_vars

\* the ingress path: callback registration and frame reception
NextNet ==
    \/ \E iface \in Ifaces, cb \in RecvCbs \cup {"NULL"} :
           dsa_register_recv_callback(iface, cb) /\ UNCHANGED <<lagstate, regvars>>
    \/ \E iface \in {IfNull, IfMaster, IfPlain}, pkt \in Pkts \cup {PktNull} :
           dsa_net_recv(iface, pkt) /\ UNCHANGED <<lagstate, regvars>>

SpecNet == InitAnyCfg /\ [][NextNet]_vars

\* the egress path and the port registry: registration of the master's
\* transmit function, transmission, slave port lookup
NextReg ==
    \/ \E iface \in Ifaces \ {IfNonEth}, fn \in TxFns :
           dsa_register_master_tx(iface, fn) /\ UNCHANGED <<lagstate, rxvars>>
    \/ \E dev \in IfSlaves \cup {IfMaster}, pkt \in Pkts :
           dsa_tx(dev, pkt) /\ UNCHANGED <<lagstate, rxvars>>
    \/ \E iface \in {IfMaster, IfPlain, IfNonEth}, slave_num \in SlaveNumArgs :
           dsa_get_slave_port(iface, slave_num) /\ UNCHANGED <<lagstate, rxvars>>

SpecReg == InitAnyMaster /\ [][NextReg]_vars

\* two threads in the LAG calls, their reads and writes of the tables
\* interleaved; the record of the last call is not kept here
racerest == <<call, dsa_recv_cb, cfg, rx, dsa_send, iface_master, tx, gs>>

NextRace ==
    \/ \E t \in Threads, op \in {"join", "leave", "change"}, lag_id \in RaceLagIds :
           RaceCall(t, op, lag_id) /\ UNCHANGED racerest
    \/ \E t \in Threads : RaceJoinScan(t) /\ UNCHANGED racerest
    \/ \E t \in Threads : RaceJoinClaim(t) /\ UNCHANGED racerest
    \/ \E t \in Threads : RaceJoinStore(t) /\ UNCHANGED racerest
    \/ \E t \in Threads : RaceCheck(t) /\ UNCHANGED racerest
    \/ \E t \in Threads : RaceLeaveClear(t) /\ UNCHANGED racerest
    \/ \E t \in Threads : RaceChangeWrite(t) /\ UNCHANGED racerest
    \/ \E t \in Threads : RacePortsScan(t) /\ UNCHANGED racerest
    \/ \E t \in Threads : RaceRemoveScan(t) /\ UNCHANGED racerest
    \/ \E t \in Threads : RaceRemoveZero(t) /\ UNCHANGED racerest

SpecRace == Init /\ [][NextRace]_vars

TypeOK ==
    /\ lag_ids \in [Slots -> LagIdArgs]
    /\ lags \in [Ports -> DsaLag]
    /\ dsa_recv_cb \in [Ifaces -> RecvCbs \cup {"NULL"}]

(* ------------------------------ properties ----------------------------- *)
HasLagId(id) == \E i \in Slots : lag_ids[i] = id
IsMember(p, id) == lags[p].is_valid /\ lags[p].id = id
TableFull == \A i \in Slots : lag_ids[i] # 0
FirstFree(i) == lag_ids[i] = 0 /\ \A j \in Slots : j < i => lag_ids[j] # 0

\* C1: after any sequence of join/leave/change calls, no non-zero value is
\* stored in more than one slot of lag_ids.
C1_NoDuplicateLagIds ==
    \A i, j \in Slots : (i # j /\ lag_ids[i] # 0) => lag_ids[i] # lag_ids[j]

\* C2: after any sequence of join/leave/change calls, every port with a valid
\* entry holds an id that is stored in lag_ids as a live (non-zero) group id.
C2_ValidPortIdIsLive ==
    \A p \in Ports : lags[p].is_valid => (lags[p].id # 0 /\ HasLagId(lags[p].id))

\* C3: at the end of every completed call, every non-zero id stored in lag_ids
\* is the id of at least one port with a valid entry.
C3_NoUnreferencedLagId ==
    \A i \in Slots : lag_ids[i] # 0 => \E p \in Ports : IsMember(p, lag_ids[i])

\* C4: after a lag_leave(port, lag_id) that passes validation, lag_id occurs in
\* no slot of lag_ids if no other port is a valid member of lag_id, and is
\* still stored in lag_ids if some other port is.  Stated for group ids other
\* than 0, the value that marks a free slot.
C4_LastMemberOutReclaims ==
    (call.op = "lag_leave" /\ call.drv # <<>> /\ call.lag_id # 0) =>
        IF \E q \in Ports : q # call.port /\ IsMember(q, call.lag_id)
        THEN HasLagId(call.lag_id)
        ELSE ~HasLagId(call.lag_id)

\* C5: a lag_join with a non-zero lag_id already stored in lag_ids leaves
\* lag_ids unchanged wherever the free slots are; only when lag_id is not
\* stored does the call write lag_id, into the first free slot.
C5_JoinReusesSlot ==
    [][call'.op = "lag_join" =>
          IF call'.lag_id # 0 /\ HasLagId(call'.lag_id)
          THEN lag_ids' = lag_ids
          ELSE \A i \in Slots :
                   lag_ids'[i] = IF FirstFree(i) THEN call'.lag_id ELSE lag_ids[i]
      ]_vars

\* C6: lag_leave(port, lag_id) on a port without a valid entry (whatever
\* lag_id, 0 included) or whose id differs from lag_id returns -ENOTSUP,
\* changes neither table and does not call the driver's port_lag_leave.
C6_LeaveRejected ==
    [][(/\ call'.op = "lag_leave"
        /\ call'.port \in Ports
        /\ (~lags[call'.port].is_valid \/ lags[call'.port].id # call'.lag_id))
       => (/\ call'.ret = 0 - ENOTSUP
           /\ lags' = lags
           /\ lag_ids' = lag_ids
           /\ call'.drv = <<>>)
      ]_vars

\* C7: no port ever holds a valid entry with id 0, and the driver's
\* port_lag_join is never called with a valid descriptor whose id is 0.
C7_ZeroNeverClaimed ==
    /\ \A p \in Ports : ~(lags[p].is_valid /\ lags[p].id = 0)
    /\ \A k \in 1 .. Len(call.drv) :
           ~(/\ call.drv[k].fn = "port_lag_join"
             /\ call.drv[k].lag.is_valid
             /\ call.drv[k].lag.id = 0)

\* C8: lag_join(port, lag_id) with every slot of lag_ids non-zero and none
\* equal to lag_id returns -ENOMEM, leaves lag_ids and every entry of lags
\* unchanged and does not call the driver's port_lag_join.
C8_JoinOutOfCapacity ==
    [][(/\ call'.op = "lag_join"
        /\ TableFull
        /\ ~HasLagId(call'.lag_id))
       => (/\ call'.ret = 0 - ENOMEM
           /\ lag_ids' = lag_ids
           /\ lags' = lags
           /\ call'.drv = <<>>)
      ]_vars

\* a join was refused on a full table that does not hold the id
C8_Witness ==
    /\ call.op = "lag_join"
    /\ call.ret = 0 - ENOMEM
    /\ call.drv = <<>>
    /\ TableFull
    /\ ~HasLagId(call.lag_id)

\* C9: a join, leave or change with a port outside the port range returns a
\* negative status, writes no entry of lags and no slot of lag_ids, and does
\* not call the driver.
C9_BadPortRejected ==
    [][(call'.op \in {"lag_join", "lag_leave", "lag_change"} /\ call'.port \notin Ports)
       => (/\ call'.ret < 0
           /\ lags' = lags
           /\ lag_ids' = lag_ids
           /\ call'.drv = <<>>)
      ]_vars

\* the interface the driver's resolve operation returned in the last reception
Resolved(iface_sw) ==
    /\ rx.op = "net_recv"
    /\ Len(rx.log) >= 1
    /\ rx.log[1].fn = "dsa_get_iface"
    /\ rx.log[1].res = iface_sw

\* C10: when the driver resolves the frame to a valid master or slave switch
\* interface that has no receive callback registered, dsa_net_recv returns
\* that interface.
C10_NoFilterReturnsCandidate ==
    \A iface_sw \in Ifaces :
        (/\ Resolved(iface_sw)
         /\ dsa_check_iface(iface_sw) = 0
         /\ dsa_recv_cb[iface_sw] = "NULL")
        => rx.ret = iface_sw

Occurrences(ids, id) == Cardinality({i \in Slots : ids[i] = id})

\* the driver call of the step: one call of fn that finds the tables as the
\* step leaves them, and whose status is the status of the step
OneDriverCall(fn) ==
    /\ Len(call'.drv) = 1
    /\ call'.drv[1].fn = fn
    /\ call'.drv[1].port = call'.port
    /\ call'.drv[1].seen = [lag_ids |-> lag_ids', lags |-> lags']
    /\ call'.ret = call'.drv[1].res

\* C20: a lag_join or lag_leave that passes validation calls the driver
\* primitive exactly once, on the updated tables, and returns its status; the
\* tables hold the updated membership whatever that status is (join: the
\* port's entry is {lag_id, valid}; leave: the entry is cleared and the id
\* reclaimed when no other port references it).
C20_UpdateThenDriverNoRollback ==
    [][/\ (/\ call'.op = "lag_join"
           /\ ((call'.lag_id # 0 /\ HasLagId(call'.lag_id))
               \/ \E i \in Slots : lag_ids[i] = 0))
          => (/\ OneDriverCall("port_lag_join")
              /\ lags' = [lags EXCEPT ![call'.port] =
                              [id |-> call'.lag_id, is_valid |-> TRUE]])
       /\ (/\ call'.op = "lag_leave"
           /\ (lags[call'.port].is_valid \/ lags[call'.port].id = 0)
           /\ lags[call'.port].id = call'.lag_id)
          => (/\ OneDriverCall("port_lag_leave")
              /\ lags' = [lags EXCEPT ![call'.port] = NoLag]
              /\ IF \E q \in Ports : q # call'.port /\ IsMember(q, call'.lag_id)
                 THEN lag_ids' = lag_ids
                 ELSE (call'.lag_id # 0 /\ HasLagId(call'.lag_id)) =>
                          Occurrences(lag_ids', call'.lag_id)
                              = Occurrences(lag_ids, call'.lag_id) - 1)
      ]_vars

\* the driver failed a leave of the last member, and the id is reclaimed
C20_Witness ==
    /\ call.op = "lag_leave"
    /\ call.lag_id # 0
    /\ Len(call.drv) = 1
    /\ call.ret < 0
    /\ lags[call.port] = NoLag
    /\ ~HasLagId(call.lag_id)

\* C11: when the driver resolves the frame to a valid switch interface that
\* has a receive callback registered, dsa_net_recv calls the callback exactly
\* once, with that interface and the packet, and returns that interface if the
\* answer is non-zero and the interface the frame arrived on if it is zero; a
\* callback that always rejects sends every frame to the master.
C11_FilterDecides ==
    \A iface_sw \in Ifaces :
        (/\ Resolved(iface_sw)
         /\ dsa_check_iface(iface_sw) = 0
         /\ dsa_recv_cb[iface_sw] # "NULL")
        => (/\ Len(rx.log) = 2
            /\ rx.log[2].fn = "dsa_recv_cb"
            /\ rx.log[2].iface = iface_sw
            /\ rx.log[2].pkt = rx.pkt
            /\ rx.ret = IF rx.log[2].res # 0 THEN iface_sw ELSE rx.iface
            /\ (dsa_recv_cb[iface_sw] = "cb_reject" => rx.ret = rx.iface))

\* a frame resolved to a slave port was rejected by its callback and went to
\* the master
C11_Witness ==
    \E iface_sw \in IfSlaves :
        /\ Resolved(iface_sw)
        /\ dsa_recv_cb[iface_sw] = "cb_reject"
        /\ Len(rx.log) = 2
        /\ rx.iface = IfMaster
        /\ rx.ret = IfMaster

\* C12: with the packet or the interface absent, dsa_net_recv returns its
\* interface argument unchanged (the master for an absent packet on a present
\* master) and calls neither the driver's resolve operation nor a callback.
C12_AbsentReturnsArgument ==
    (rx.op = "net_recv" /\ (rx.pkt = PktNull \/ rx.iface = IfNull))
    => (rx.ret = rx.iface /\ rx.log = <<>>)

\* C13: if the master has no switch context, or the context no driver, or the
\* driver no resolve operation, dsa_net_recv returns the master interface and
\* calls neither the resolve operation nor a callback.
C13_FailOpen ==
    (/\ rx.op = "net_recv"
     /\ rx.iface = IfMaster
     /\ (~cfg.dsa_ctx \/ ~cfg.dapi \/ ~cfg.dsa_get_iface))
    => (rx.ret = IfMaster /\ rx.log = <<>>)

\* C14: dsa_tx on a slave port whose switch context has no master reference
\* returns -ENODEV and calls neither the driver's tag insertion nor a saved
\* transmit function.
C14_NoMasterFailsClosed ==
    (tx.op = "tx" /\ tx.dev \in IfSlaves /\ ~iface_master)
    => (tx.ret = 0 - ENODEV /\ tx.log = <<>>)

\* a transmission on a slave port was refused for want of a master
C14_Witness ==
    /\ tx.op = "tx"
    /\ tx.dev \in IfSlaves
    /\ ~iface_master
    /\ tx.ret = 0 - ENODEV
    /\ dsa_send[IfMaster] # "NULL"

\* C15: a dsa_tx from the master, or from a slave whose context has a master,
\* calls the driver's tag insertion once for the source interface, then the
\* master's saved transmit function once with the tagged packet and the
\* master's device, and returns the status of that function.
C15_TagThenSend ==
    (tx.op = "tx" /\ (tx.dev = IfMaster \/ iface_master))
    => (/\ Len(tx.log) = 2
        /\ tx.log[1].fn = "dsa_xmit_pkt"
        /\ tx.log[1].iface = tx.dev
        /\ tx.log[1].pkt = tx.pkt
        /\ tx.log[2].fn = dsa_send[IfMaster]
        /\ tx.log[2].dev = IfMaster
        /\ tx.log[2].pkt = tx.log[1].res
        /\ tx.ret = tx.log[2].res)

\* a packet sent on a slave port was tagged and sent, and the send failed
C15_Witness ==
    /\ tx.op = "tx"
    /\ tx.dev \in IfSlaves
    /\ Len(tx.log) = 2
    /\ tx.log[2].fn \in TxFns
    /\ tx.ret < 0

\* C16: once a transmit function is saved for the master, no later operation,
\* a second dsa_register_master_tx with another function included, changes
\* the saved function that dsa_tx calls.
C16_SavedTxWriteOnce ==
    [][dsa_send[IfMaster] # "NULL" => dsa_send'[IfMaster] = dsa_send[IfMaster]]_vars

\* C17: dsa_get_slave_port returns slave interface number index when
\* 0 <= index < num_slave_ports, and returns NULL without faulting for every
\* other index and when the Ethernet context or the switch context is missing.
C17_SlavePortLookup ==
    gs.op = "get_slave_port" =>
        /\ ~gs.fault
        /\ gs.ret = IF /\ EthCtxOf(gs.iface)
                       /\ DsaCtxOf(gs.iface)
                       /\ 0 <= gs.slave_num
                       /\ gs.slave_num < NumSlavePorts
                    THEN gs.slave_num
                    ELSE IfNull

\* C18: when two threads run the LAG calls on different ports with their
\* reads and writes of the tables interleaved, the state they leave has no
\* port with a valid entry whose id is absent from lag_ids.  Stated for
\* group ids other than 0, for which calls that run one at a time keep it.
C18_RaceFree ==
    (\A t \in Threads : thr[t].pc = "idle") =>
        \A p \in Ports :
            (lags[p].is_valid /\ lags[p].id # 0) => HasLagId(lags[p].id)

====
